---- MODULE Spec2Model ----
(***************************************************************************)
(* toki: transport of log documents from an OpenSearch index to Loki.      *)
(*                                                                         *)
(* The module models queryAndPushLogsParallel (main.go): one producer that *)
(* walks the scroll protocol and sends every well-formed document on the   *)
(* buffered channel docChan, workerCount goroutines that range over the    *)
(* channel and call pushLogToLoki, the close / wg.Wait hand-over at the    *)
(* end of a successful extraction and the deferred clear-scroll request.   *)
(*                                                                         *)
(* The source (OpenSearch) and the push endpoint (Loki) are environments:  *)
(* every response a request can get is a nondeterministic choice.  The     *)
(* responses are those the code handles without a panic: "hits" is a JSON  *)
(* object and every hit is one (the assertions of main.go:167, 177 and 188 *)
(* that have no comma-ok form).  The producer's steps are split where it   *)
(* talks to the source or to the channel, the workers' where they receive  *)
(* and where pushLogToLoki returns.  After an error return the worker      *)
(* goroutines are still there and go on receiving.                         *)
(***************************************************************************)
EXTENDS Integers, Sequences, FiniteSets, TLC

(***************************************************************************)
(* Bounds of the model.  scrollBatchSize (1000 in main.go:31) is both the  *)
(* page size asked of the source and the capacity of docChan; workerCount  *)
(* is 8 in main.go:88.  Both are scaled down, and the index holds more     *)
(* hits than the channel so that the producer does block on a full         *)
(* channel.                                                                *)
(***************************************************************************)
scrollBatchSize == 2

workerCount == 2

\* the number of hits the index holds at most
MaxDocs == 3

Workers == 1..workerCount

(***************************************************************************)
(* Values of the "_scroll_id" field of a response.  Missing is the absent  *)
(* (or non-string) field, "" the empty string; a response that renews the  *)
(* cursor names a scroll id of its own, ScrollIdOf(p) for the p-th one.    *)
(***************************************************************************)
Missing == "<nil>"

ScrollIdOf(p) == "s" \o ToString(p)

Tokens(p) == {Missing, "", ScrollIdOf(p)}

\* v.(string) with the comma-ok form: the zero value "" when the assertion fails
AssertString(v) == IF v = Missing THEN [val |-> "", ok |-> FALSE]
                                  ELSE [val |-> v, ok |-> TRUE]

(***************************************************************************)
(* Responses of the source.  A hit is [wf, doc]: wf says that "_source" is *)
(* a JSON object, doc = <<page, index>> identifies the document.           *)
(*   kind = "error"         res.IsError(), body decodes                    *)
(*   kind = "errorBadBody"  res.IsError(), body does not decode            *)
(*   kind = "badBody"       status fine, body does not decode              *)
(*   kind = "ok"            decoded; hitsOk says that hits.hits is a list  *)
(***************************************************************************)
PageShapes(p) ==
    UNION { { [i \in 1..n |-> [wf |-> f[i], doc |-> <<p, i>>]] : f \in [1..n -> BOOLEAN] }
            : n \in 0..scrollBatchSize }

Responses(p) ==
    { [kind |-> k, hitsOk |-> TRUE, hits |-> <<>>, sid |-> Missing]
        : k \in {"error", "errorBadBody", "badBody"} }
    \cup { [kind |-> "ok", hitsOk |-> FALSE, hits |-> <<>>, sid |-> t] : t \in Tokens(p) }
    \cup { [kind |-> "ok", hitsOk |-> TRUE, hits |-> h, sid |-> t]
             : h \in PageShapes(p), t \in Tokens(p) }

RECURSIVE HitsIn(_)
\* the number of hits of a sequence of responses
HitsIn(rs) == IF rs = <<>> THEN 0 ELSE Len(Head(rs).hits) + HitsIn(Tail(rs))

\* what the source may answer to the request that follows the responses rs:
\* a page of at most scrollBatchSize hits (Size: sizePtr) out of the hits it
\* has left; once the index is exhausted the hit list is empty
SourceAnswers(rs) ==
    { r \in Responses(Len(rs) + 1) : Len(r.hits) <= MaxDocs - HitsIn(rs) }

NoResponse == [kind |-> "none", hitsOk |-> FALSE, hits |-> <<>>, sid |-> Missing]

VARIABLES
    pc,             \* position of queryAndPushLogsParallel
    res,            \* the response being processed
    scrollID,       \* var scrollID string
    i,              \* index of the hit loop
    processedCount, \* processedCount
    queue,          \* docChan: buffered documents
    closed,         \* docChan has been closed
    wstate,         \* per worker: "recv" (at range docChan), "push", "done"
    wdoc,           \* per worker: the document it is pushing
    ret,            \* "none", "nil" or "err": the returned error
    reported,       \* the count of the final log line, -1 before it
    served,         \* history: responses received from the source
    enq,            \* history: documents sent on docChan
    deq,            \* history: documents received from docChan
    attempts,       \* history: per document, the number of pushLogToLoki calls
    failures,       \* history: number of pushLogToLoki calls that returned an error
    closeCount,     \* history: number of close(docChan)
    cleared,        \* history: scroll ids named in clear-scroll requests
    clearErr,       \* history: outcome of the clear-scroll request
    logDoc,         \* pushLogToLoki on its own: the document passed
    lokiResp,       \* ... what the push endpoint does with a request
    pushOut         \* ... the result of the call

\* the variables of a pushLogToLoki call studied on its own
pushVars == <<logDoc, lokiResp, pushOut>>

vars == <<pc, res, scrollID, i, processedCount, queue, closed, wstate, wdoc,
          ret, reported, served, enq, deq, attempts, failures,
          closeCount, cleared, clearErr, pushVars>>

prodVars == <<pc, res, scrollID, i, processedCount, ret, reported, served,
              closeCount, cleared, clearErr>>

NoDoc == <<0, 0>>

AllDocs == (1..MaxDocs) \X (1..scrollBatchSize)

\* no pushLogToLoki call under study
NoLogDoc == [t |-> "none"]

NoLokiResp == [kind |-> "none", status |-> 0]

NoOut == [err |-> "none"]

PipelineInit ==
    /\ pc = "search"
    /\ res = NoResponse
    /\ scrollID = ""
    /\ i = 0
    /\ processedCount = 0
    /\ queue = <<>>
    /\ closed = FALSE
    /\ wstate = [w \in Workers |-> "recv"]
    /\ wdoc = [w \in Workers |-> NoDoc]
    /\ ret = "none"
    /\ reported = -1
    /\ served = <<>>
    /\ enq = <<>>
    /\ deq = <<>>
    /\ attempts = [d \in AllDocs |-> 0]
    /\ failures = 0
    /\ closeCount = 0
    /\ cleared = <<>>
    /\ clearErr = "none"

Init ==
    /\ PipelineInit
    /\ logDoc = NoLogDoc
    /\ lokiResp = NoLokiResp
    /\ pushOut = NoOut

(***************************************************************************)
(* Decisions of the page loop                                              *)
(***************************************************************************)
IsError(r) == r.kind \in {"error", "errorBadBody"}

DecodeOk(r) == r.kind = "ok"

\* !ok || len(hits) == 0
NoHits(r) == ~r.hitsOk \/ Len(r.hits) = 0

CursorMissing_never(r) == FALSE

\* !ok || scrollID == ""  after  scrollID, ok = searchResponse["_scroll_id"].(string)
CursorMissing(r) == ~AssertString(r.sid).ok \/ AssertString(r.sid).val = ""

SourceOk_always(h) == TRUE

\* doc, ok := hit["_source"].(map[string]interface{})
SourceOk(h) == h.wf

HitsDone_early(k, hits) == k >= Len(hits)

\* for _, hit := range hits  has gone through every hit
HitsDone(k, hits) == k > Len(hits)

IncProcessed_everyHit(c, h) == c + 1

\* the hit's effect on processedCount: continue on !ok, processedCount++ otherwise
IncProcessed(c, h) == IF SourceOk(h) THEN c + 1 ELSE c

(***************************************************************************)
(* docChan: a buffered channel of capacity scrollBatchSize                 *)
(***************************************************************************)
CanSend_unbounded(q) == TRUE

\* a send proceeds when the buffer has room
CanSend(q) == Len(q) < scrollBatchSize

ChanSend_front(q, d) == <<d>> \o q

ChanSend(q, d) == Append(q, d)

ChanRest_peek(q) == q

\* a receive takes the oldest document out of the buffer
ChanRest(q) == Tail(q)

RangeEnds_onClose(q, c) == c

\* range docChan ends when the channel is closed and drained
RangeEnds(q, c) == c /\ q = <<>>

CloseChan_forgotten(c) == c

\* close(docChan)
CloseChan(c) == TRUE

AfterPush_exitOnError(err) == IF err THEN "done" ELSE "recv"

\* the worker logs the error of pushLogToLoki and takes the next document
AfterPush(err) == "recv"

RetAfterClear_propagate(r, e) == IF e = "err" THEN "err" ELSE r

\* the deferred function logs the error of clearScrollReq.Do; the result of
\* the function stays what the return statement set
RetAfterClear(r, e) == r

(***************************************************************************)
(* Producer: queryAndPushLogsParallel                                      *)
(***************************************************************************)
ReturnErr ==
    /\ ret' = "err"
    /\ pc' = "defer"

\* searchReq.Do: the request fails, or the first response arrives
Search ==
    /\ pc = "search"
    /\ \/ /\ ReturnErr
          /\ UNCHANGED <<res, served>>
       \/ \E r \in SourceAnswers(served) :
            /\ res' = r
            /\ served' = Append(served, r)
            /\ pc' = "loop"
            /\ ret' = ret
    /\ UNCHANGED <<scrollID, i, processedCount, queue, closed, wstate, wdoc,
                   reported, enq, deq, attempts, failures, closeCount, cleared, clearErr>>
    /\ UNCHANGED pushVars

\* head of the for loop: error response, decode, exhaustion, scroll id
ProcessResponse ==
    /\ pc = "loop"
    /\ IF IsError(res) \/ ~DecodeOk(res)
         THEN ReturnErr /\ UNCHANGED <<scrollID, i>>
         ELSE IF NoHits(res)
           THEN pc' = "close" /\ UNCHANGED <<scrollID, i, ret>>
           ELSE /\ scrollID' = AssertString(res.sid).val
                /\ IF CursorMissing(res)
                     THEN ReturnErr /\ i' = i
                     ELSE pc' = "hits" /\ i' = 1 /\ ret' = ret
    /\ UNCHANGED <<res, processedCount, queue, closed, wstate, wdoc,
                   reported, served, enq, deq, attempts, failures, closeCount, cleared, clearErr>>
    /\ UNCHANGED pushVars

\* one iteration of  for _, hit := range hits  up to the channel send
HitStep ==
    /\ pc = "hits"
    /\ IF HitsDone(i, res.hits)
         THEN pc' = "scroll" /\ UNCHANGED <<i, processedCount>>
         ELSE /\ processedCount' = IncProcessed(processedCount, res.hits[i])
              /\ IF SourceOk(res.hits[i])
                   THEN pc' = "send" /\ i' = i
                   ELSE pc' = "hits" /\ i' = i + 1
    /\ UNCHANGED <<res, scrollID, queue, closed, wstate, wdoc, ret,
                   reported, served, enq, deq, attempts, failures, closeCount, cleared, clearErr>>
    /\ UNCHANGED pushVars

\* docChan <- doc
Send ==
    /\ pc = "send"
    /\ CanSend(queue)
    /\ queue' = ChanSend(queue, res.hits[i].doc)
    /\ enq' = Append(enq, res.hits[i].doc)
    /\ i' = i + 1
    /\ pc' = "hits"
    /\ UNCHANGED <<res, scrollID, processedCount, closed, wstate, wdoc, ret,
                   reported, served, deq, attempts, failures, closeCount, cleared, clearErr>>
    /\ UNCHANGED pushVars

\* scrollReq.Do: the request fails, or the next response arrives
Scroll ==
    /\ pc = "scroll"
    /\ \/ /\ ReturnErr
          /\ UNCHANGED <<res, served>>
       \/ \E r \in SourceAnswers(served) :
            /\ res' = r
            /\ served' = Append(served, r)
            /\ pc' = "loop"
            /\ ret' = ret
    /\ UNCHANGED <<scrollID, i, processedCount, queue, closed, wstate, wdoc,
                   reported, enq, deq, attempts, failures, closeCount, cleared, clearErr>>
    /\ UNCHANGED pushVars

\* close(docChan) after the loop's break
Close ==
    /\ pc = "close"
    /\ closed' = CloseChan(closed)
    /\ closeCount' = closeCount + 1
    /\ pc' = "wait"
    /\ UNCHANGED <<res, scrollID, i, processedCount, queue, wstate, wdoc, ret,
                   reported, served, enq, deq, attempts, failures, cleared, clearErr>>
    /\ UNCHANGED pushVars

\* wg.Wait(), the final log line, return nil
Wait ==
    /\ pc = "wait"
    /\ \A w \in Workers : wstate[w] = "done"
    /\ reported' = processedCount
    /\ ret' = "nil"
    /\ pc' = "defer"
    /\ UNCHANGED <<res, scrollID, i, processedCount, queue, closed, wstate, wdoc,
                   served, enq, deq, attempts, failures, closeCount, cleared, clearErr>>
    /\ UNCHANGED pushVars

\* the deferred function: clear the scroll if scrollID is not empty
Defer ==
    /\ pc = "defer"
    /\ IF scrollID # ""
         THEN /\ cleared' = Append(cleared, scrollID)
              /\ \E e \in {"ok", "err"} :
                   /\ clearErr' = e
                   /\ ret' = RetAfterClear(ret, e)
         ELSE UNCHANGED <<cleared, clearErr, ret>>
    /\ pc' = "returned"
    /\ UNCHANGED <<res, scrollID, i, processedCount, queue, closed, wstate, wdoc,
                   reported, served, enq, deq, attempts, failures, closeCount>>
    /\ UNCHANGED pushVars

Producer == Search \/ ProcessResponse \/ HitStep \/ Send \/ Scroll \/ Close \/ Wait \/ Defer

(***************************************************************************)
(* Workers: go func() { defer wg.Done(); for logDoc := range docChan ... } *)
(***************************************************************************)
\* the range receives the oldest buffered document
WorkerRecv(w) ==
    /\ wstate[w] = "recv"
    /\ queue # <<>>
    /\ wdoc' = [wdoc EXCEPT ![w] = Head(queue)]
    /\ queue' = ChanRest(queue)
    /\ deq' = Append(deq, Head(queue))
    /\ wstate' = [wstate EXCEPT ![w] = "push"]
    /\ UNCHANGED <<prodVars, closed, enq, attempts, failures>>
    /\ UNCHANGED pushVars

\* pushLogToLoki returns nil or an error; an error is logged
WorkerPush(w) ==
    /\ wstate[w] = "push"
    /\ \E err \in BOOLEAN :
         /\ failures' = IF err THEN failures + 1 ELSE failures
         /\ wstate' = [wstate EXCEPT ![w] = AfterPush(err)]
    /\ attempts' = [attempts EXCEPT ![wdoc[w]] = @ + 1]
    /\ wdoc' = [wdoc EXCEPT ![w] = NoDoc]
    /\ UNCHANGED <<prodVars, queue, closed, enq, deq>>
    /\ UNCHANGED pushVars

\* the range ends; the deferred wg.Done() runs
WorkerExit(w) ==
    /\ wstate[w] = "recv"
    /\ RangeEnds(queue, closed)
    /\ wstate' = [wstate EXCEPT ![w] = "done"]
    /\ UNCHANGED <<prodVars, queue, closed, wdoc, enq, deq, attempts, failures>>
    /\ UNCHANGED pushVars

Worker(w) == WorkerRecv(w) \/ WorkerPush(w) \/ WorkerExit(w)

Next == Producer \/ \E w \in Workers : Worker(w)

Spec == Init /\ [][Next]_vars

\* the scheduler runs every goroutine that can take a step
FairSpec == Spec /\ WF_vars(Producer) /\ \A w \in Workers : WF_vars(Worker(w))

(***************************************************************************)
(* What a run is expected to put on the channel, read off the responses    *)
(***************************************************************************)
\* the documents of the well-formed hits of one page, in hit order
DocsOfPage(r) ==
    LET wfh == SelectSeq(r.hits, LAMBDA h : h.wf)
    IN  [k \in 1..Len(wfh) |-> wfh[k].doc]

RECURSIVE DocsOfPages(_)
\* ... of a sequence of pages, in page order
DocsOfPages(rs) ==
    IF rs = <<>> THEN <<>> ELSE DocsOfPage(Head(rs)) \o DocsOfPages(Tail(rs))

IsPrefix(s, t) == Len(s) <= Len(t) /\ s = SubSeq(t, 1, Len(s))

HasCursor(r) == r.sid \notin {Missing, ""}

\* a decoded page with a hit list and a cursor token
GoodPage(r) == r.kind = "ok" /\ r.hitsOk /\ HasCursor(r)

\* every response so far was a good page
WorkingSource == \A k \in 1..Len(served) : GoodPage(served[k])

\* k non-empty good pages followed by an empty good page
ExhaustedSource ==
    /\ WorkingSource
    /\ Len(served) >= 1
    /\ \A k \in 1..Len(served) : (Len(served[k].hits) = 0) <=> (k = Len(served))

\* a page with hits but without a usable cursor token
BadCursorPage(r) == r.kind = "ok" /\ r.hitsOk /\ Len(r.hits) > 0 /\ ~HasCursor(r)

Returned == pc = "returned"

(***************************************************************************)
(* C1: whenever the run has returned and some response received during it  *)
(* carried a non-empty scroll id, exactly one clear-scroll request has     *)
(* been issued.                                                            *)
(***************************************************************************)
C1_ClearedExactlyOnce ==
    (Returned /\ \E k \in 1..Len(served) : HasCursor(served[k]))
        => Len(cleared) = 1

(***************************************************************************)
(* C2: in every run, ended by exhaustion or by a fatal error, docChan is   *)
(* closed exactly once, after the producer's last send, and nothing is     *)
(* sent after the close.                                                   *)
(***************************************************************************)
C2_ClosedExactlyOnce ==
    /\ closeCount <= 1
    /\ closed => pc \in {"wait", "defer", "returned"}
    /\ Returned => closeCount = 1

(***************************************************************************)
(* C3: the function does not return before every worker has terminated,    *)
(* for both outcomes; every document sent on the channel has been received *)
(* and handed to pushLogToLoki before the return.                          *)
(***************************************************************************)
C3_ReturnsAfterWorkers ==
    Returned =>
        /\ \A w \in Workers : wstate[w] = "done"
        /\ queue = <<>>
        /\ \A k \in 1..Len(enq) : attempts[enq[k]] >= 1

(***************************************************************************)
(* C4: with a source that answers k non-empty pages and then an empty one, *)
(* every response carrying a cursor token, the documents sent on the       *)
(* channel are the well-formed documents of the pages, each once, in page  *)
(* order and hit order; they leave the channel in the same order, and      *)
(* their number is the sum of the pages' well-formed hits.  While the run  *)
(* is under way the documents sent are a prefix of that sequence.          *)
(***************************************************************************)
C4_SourceOrder ==
    /\ WorkingSource => IsPrefix(enq, DocsOfPages(served)) /\ IsPrefix(deq, enq)
    /\ (ExhaustedSource /\ pc \in {"close", "wait", "defer", "returned"}) =>
           /\ enq = DocsOfPages(served)
           /\ \A j, k \in 1..Len(enq) : enq[j] = enq[k] => j = k
           /\ processedCount = Len(DocsOfPages(served))
    /\ (ExhaustedSource /\ ret = "nil") => deq = DocsOfPages(served)

C4_Witness ==
    /\ ExhaustedSource
    /\ ret = "nil"
    /\ Len(served) >= 3
    /\ Len(deq) = MaxDocs
    /\ \E k \in 1..Len(served) : Len(served[k].hits) >= 2

(***************************************************************************)
(* C5: a page with a non-empty hit list and a missing or empty scroll id   *)
(* ends the run with an error; no document of that page or of a later page *)
(* is sent on the channel, the documents of the earlier pages have been.   *)
(***************************************************************************)
C5_MissingCursorIsFatal ==
    \A k \in 1..Len(served) :
        (BadCursorPage(served[k]) /\ (k < Len(served) \/ pc # "loop")) =>
            /\ ret = "err"
            /\ k = Len(served)
            /\ \A j \in 1..Len(enq) : enq[j][1] < k
            /\ enq = DocsOfPages(SubSeq(served, 1, k - 1))

C5_Witness ==
    /\ Returned
    /\ Len(served) = 2
    /\ BadCursorPage(served[2])
    /\ Len(enq) = scrollBatchSize

(***************************************************************************)
(* C6: on a run whose extraction succeeds the reported count is the number *)
(* of documents sent on the channel (the well-formed hits), whatever the   *)
(* number of deliveries that failed, and the run returns nil.              *)
(***************************************************************************)
C6_ReportedCount ==
    reported # -1 =>
        /\ ret = "nil"
        /\ reported = Len(enq)
        /\ WorkingSource => reported = Len(DocsOfPages(served))

\* every delivery of a run with documents failed
C6_Witness ==
    /\ Returned
    /\ ret = "nil"
    /\ reported = MaxDocs
    /\ failures = reported

(***************************************************************************)
(* C7: the channel never holds more than scrollBatchSize documents; with a *)
(* full channel the producer cannot take a step; no document is dropped:   *)
(* every document counted is on the channel, has been received from it, or *)
(* is the one the producer is about to send.                               *)
(***************************************************************************)
C7_BoundedQueue ==
    /\ Len(queue) <= scrollBatchSize
    /\ (pc = "send" /\ Len(queue) = scrollBatchSize) => ~ENABLED Producer
    /\ enq = deq \o queue
    /\ processedCount = Len(enq) + (IF pc = "send" THEN 1 ELSE 0)

\* the producer is blocked on a full channel
C7_Witness ==
    /\ pc = "send"
    /\ Len(queue) = scrollBatchSize

(***************************************************************************)
(* C8: a failed pushLogToLoki call stops nothing: the worker is back at    *)
(* the channel, the other workers, the producer and the channel are left   *)
(* as they were; a run that returns nil has attempted every document sent, *)
(* whatever the number of failures.                                        *)
(***************************************************************************)
FailedPushBy(w) ==
    /\ wstate[w] = "push"
    /\ wstate'[w] # "push"
    /\ failures' = failures + 1

C8_FailureIsLocal ==
    /\ [][\A w \in Workers : FailedPushBy(w) =>
             /\ wstate'[w] = "recv"
             /\ \A v \in Workers \ {w} : wstate'[v] = wstate[v] /\ wdoc'[v] = wdoc[v]
             /\ UNCHANGED <<pc, ret, res, i, queue, closed, enq>>]_vars
    /\ [](ret = "nil" => \A k \in 1..Len(enq) : attempts[enq[k]] >= 1)

\* more failures than workers: some worker has pushed again after a failure
C8_Witness ==
    /\ ret = "nil"
    /\ failures > workerCount

(***************************************************************************)
(* C9: a worker leaves its loop only from the receive, with the channel    *)
(* closed and empty; a worker at an open empty channel has no step.        *)
(***************************************************************************)
C9_WorkerExit ==
    /\ [][\A w \in Workers : (wstate[w] # "done" /\ wstate'[w] = "done") =>
             wstate[w] = "recv" /\ closed /\ queue = <<>>]_vars
    /\ [](\A w \in Workers : wstate[w] = "done" => closed /\ queue = <<>>)
    /\ [](\A w \in Workers :
             (wstate[w] = "recv" /\ ~closed /\ queue = <<>>) => ~ENABLED Worker(w))

\* the workers have drained a closed channel and left
C9_Witness ==
    /\ \A w \in Workers : wstate[w] = "done"
    /\ Len(deq) > scrollBatchSize

(***************************************************************************)
(* C10: with every request returning, a source that runs out of pages and  *)
(* fair scheduling, every run returns; before the return some goroutine    *)
(* can always take a step.                                                 *)
(***************************************************************************)
C10_Termination ==
    /\ <>Returned
    /\ [](~Returned => ENABLED Next)

\* a run that sent more documents than the channel holds and returned nil
C10_Witness ==
    /\ Returned
    /\ ret = "nil"
    /\ Len(enq) > scrollBatchSize

(***************************************************************************)
(* C11: on a run whose extraction succeeds every document sent on the      *)
(* channel is handed to pushLogToLoki exactly once: no document is pushed  *)
(* twice, no two workers hold the same document, and at the return none is *)
(* left without its push.                                                  *)
(***************************************************************************)
C11_ExactlyOnce ==
    /\ \A d \in AllDocs : attempts[d] <= 1
    /\ \A w \in Workers : wdoc[w] # NoDoc =>
           /\ attempts[wdoc[w]] = 0
           /\ \A v \in Workers \ {w} : wdoc[v] # wdoc[w]
    /\ ret = "nil" =>
           /\ deq = enq
           /\ \A k \in 1..Len(enq) : attempts[enq[k]] = 1

\* every document of a full index pushed once, one of the pushes failed
C11_Witness ==
    /\ Returned
    /\ ret = "nil"
    /\ Len(enq) = MaxDocs
    /\ failures >= 1
    /\ \A k \in 1..Len(enq) : attempts[enq[k]] = 1

(***************************************************************************)
(* C12: pagination is sequential: a response is received only in answer to *)
(* the one request of the search or scroll step, and the scroll request is *)
(* issued only when every well-formed document of the pages received so    *)
(* far has been sent on the channel.                                       *)
(***************************************************************************)
C12_SequentialPages ==
    /\ [](pc = "scroll" => enq = DocsOfPages(served) /\ i = Len(res.hits) + 1)
    /\ [][served' # served =>
             /\ pc \in {"search", "scroll"}
             /\ served' = Append(served, res')
             /\ enq = DocsOfPages(served)]_vars

\* the request for the third page is about to be issued
C12_Witness ==
    /\ pc = "scroll"
    /\ Len(served) = 2
    /\ Len(enq) = MaxDocs

(***************************************************************************)
(* C13: a hit whose "_source" is not an object is skipped: the step over   *)
(* it sends nothing, counts nothing, returns nothing and moves to the next *)
(* hit of the page; no such hit is ever on the channel, and the hits after *)
(* it and the pages after its page are processed.                          *)
(***************************************************************************)
AtMalformedHit == pc = "hits" /\ i <= Len(res.hits) /\ ~res.hits[i].wf

C13_MalformedSkipped ==
    /\ [][(AtMalformedHit /\ <<pc, i>>' # <<pc, i>>) =>
             /\ pc' = "hits"
             /\ i' = i + 1
             /\ UNCHANGED <<processedCount, enq, queue, ret, res, scrollID>>]_vars
    /\ [](\A k \in 1..Len(served) : \A j \in 1..Len(served[k].hits) :
             ~served[k].hits[j].wf =>
                 \A n \in 1..Len(enq) : enq[n] # served[k].hits[j].doc)
    /\ [](pc = "scroll" => enq = DocsOfPages(served))

\* a malformed hit, then a well-formed hit of the same page, then another page
C13_Witness ==
    /\ ret = "nil"
    /\ Len(served) >= 3
    /\ Len(served[1].hits) = 2
    /\ ~served[1].hits[1].wf
    /\ served[1].hits[2].wf
    /\ enq = <<served[1].hits[2].doc, <<2, 1>>>>
    /\ processedCount = 2

(***************************************************************************)
(* C14: the scroll id named in the clear-scroll request is the one of the  *)
(* most recent response received, the final response with an empty hit     *)
(* list included.                                                          *)
(***************************************************************************)
LastResponse == served[Len(served)]

C14_ClearsLatestToken ==
    (Returned /\ cleared # <<>> /\ HasCursor(LastResponse))
        => cleared[Len(cleared)] = LastResponse.sid

(***************************************************************************)
(* C16: the outcome of the clear-scroll request changes nothing: the       *)
(* deferred step leaves the returned error, the documents sent and the     *)
(* reported count as they are, and at the return both the error and the    *)
(* documents sent are determined by the responses of the source alone.     *)
(***************************************************************************)
\* the result of a run that received the responses rs: nil when the last one
\* ended the pagination, an error otherwise
PoolRet(rs) ==
    IF rs # <<>> /\ rs[Len(rs)].kind = "ok"
         /\ (~rs[Len(rs)].hitsOk \/ Len(rs[Len(rs)].hits) = 0)
      THEN "nil" ELSE "err"

\* the documents a run that received rs sends: those of the pages with a cursor
PoolDocs(rs) == DocsOfPages(SelectSeq(rs, GoodPage))

C16_ClearFailureIgnored ==
    /\ [][(pc = "defer" /\ pc' = "returned") =>
             UNCHANGED <<ret, enq, reported, processedCount, queue, closed>>]_vars
    /\ [](Returned => ret = PoolRet(served) /\ enq = PoolDocs(served))

\* a successful run whose clear-scroll request failed
C16_Witness ==
    /\ Returned
    /\ clearErr = "err"
    /\ ret = "nil"
    /\ Len(enq) = MaxDocs

(***************************************************************************)
(* The sequential pipeline: queryAndPushLogs driven by the callback of     *)
(* main (the variant without the worker pool).  It runs on the same        *)
(* variables: deq records the documents handed to the callback, attempts   *)
(* and failures its pushLogToLoki calls, processedCount is main's counter  *)
(* of successful pushes; the channel and the workers are not used.         *)
(***************************************************************************)
poolVars == <<queue, closed, wstate, wdoc, enq, closeCount>>

\* searchReq.Do: the request fails, or the first response arrives
SeqSearch ==
    /\ pc = "search"
    /\ \/ /\ ReturnErr
          /\ UNCHANGED <<res, served>>
       \/ \E r \in SourceAnswers(served) :
            /\ res' = r
            /\ served' = Append(served, r)
            /\ pc' = "loop"
            /\ ret' = ret
    /\ UNCHANGED <<scrollID, i, processedCount, reported, deq, attempts, failures,
                   cleared, clearErr, poolVars>>
    /\ UNCHANGED pushVars

\* head of the for loop; the break leads to return nil
SeqProcessResponse ==
    /\ pc = "loop"
    /\ IF IsError(res) \/ ~DecodeOk(res)
         THEN ReturnErr /\ UNCHANGED <<scrollID, i>>
         ELSE IF NoHits(res)
           THEN ret' = "nil" /\ pc' = "defer" /\ UNCHANGED <<scrollID, i>>
           ELSE /\ scrollID' = AssertString(res.sid).val
                /\ IF CursorMissing(res)
                     THEN ReturnErr /\ i' = i
                     ELSE pc' = "hits" /\ i' = 1 /\ ret' = ret
    /\ UNCHANGED <<res, processedCount, reported, served, deq, attempts, failures,
                   cleared, clearErr, poolVars>>
    /\ UNCHANGED pushVars

\* one iteration of the hit loop: the callback pushes the document; its error
\* ends the run, its success is counted by main
SeqHitStep ==
    /\ pc = "hits"
    /\ IF HitsDone(i, res.hits)
         THEN pc' = "scroll"
              /\ UNCHANGED <<i, processedCount, ret, deq, attempts, failures>>
         ELSE IF ~SourceOk(res.hits[i])
           THEN pc' = "hits" /\ i' = i + 1
                /\ UNCHANGED <<processedCount, ret, deq, attempts, failures>>
           ELSE /\ deq' = Append(deq, res.hits[i].doc)
                /\ attempts' = [attempts EXCEPT ![res.hits[i].doc] = @ + 1]
                /\ \E err \in BOOLEAN :
                     IF err
                       THEN /\ failures' = failures + 1
                            /\ ReturnErr
                            /\ UNCHANGED <<i, processedCount>>
                       ELSE /\ processedCount' = processedCount + 1
                            /\ i' = i + 1
                            /\ pc' = "hits"
                            /\ UNCHANGED <<failures, ret>>
    /\ UNCHANGED <<res, scrollID, reported, served, cleared, clearErr, poolVars>>
    /\ UNCHANGED pushVars

\* scrollReq.Do: the request fails, or the next response arrives
SeqScroll ==
    /\ pc = "scroll"
    /\ \/ /\ ReturnErr
          /\ UNCHANGED <<res, served>>
       \/ \E r \in SourceAnswers(served) :
            /\ res' = r
            /\ served' = Append(served, r)
            /\ pc' = "loop"
            /\ ret' = ret
    /\ UNCHANGED <<scrollID, i, processedCount, reported, deq, attempts, failures,
                   cleared, clearErr, poolVars>>
    /\ UNCHANGED pushVars

\* the deferred function: clear the scroll if scrollID is not empty
SeqDefer ==
    /\ pc = "defer"
    /\ IF scrollID # ""
         THEN /\ cleared' = Append(cleared, scrollID)
              /\ \E e \in {"ok", "err"} :
                   /\ clearErr' = e
                   /\ ret' = RetAfterClear(ret, e)
         ELSE UNCHANGED <<cleared, clearErr, ret>>
    /\ pc' = "returned"
    /\ UNCHANGED <<res, scrollID, i, processedCount, reported, served, deq,
                   attempts, failures, poolVars>>
    /\ UNCHANGED pushVars

\* main after a nil result: the final log line (log.Fatalf otherwise)
SeqReport ==
    /\ pc = "returned"
    /\ ret = "nil"
    /\ reported = -1
    /\ reported' = processedCount
    /\ UNCHANGED <<pc, res, scrollID, i, processedCount, ret, served, deq,
                   attempts, failures, cleared, clearErr, poolVars>>
    /\ UNCHANGED pushVars

SeqNext == SeqSearch \/ SeqProcessResponse \/ SeqHitStep \/ SeqScroll \/ SeqDefer \/ SeqReport

SeqSpec == Init /\ [][SeqNext]_vars

(***************************************************************************)
(* C15: the sequential pipeline behaves as the worker pool with one worker *)
(* does on the same responses: at the return it has handed to delivery the *)
(* documents the pool sends to its worker, in the same order, its result   *)
(* is the pool's, and it has cleared the scroll the pool clears.           *)
(***************************************************************************)
\* the scroll id the pool holds after the responses rs, as its clear request
PoolCleared(rs) ==
    LET pages == SelectSeq(rs, LAMBDA r : r.kind = "ok" /\ r.hitsOk /\ Len(r.hits) > 0)
        held  == IF pages = <<>> THEN "" ELSE AssertString(pages[Len(pages)].sid).val
    IN  IF held = "" THEN <<>> ELSE <<held>>

C15_SeqIsPoolOfOne ==
    Returned =>
        /\ ret = PoolRet(served)
        /\ deq = PoolDocs(served)
        /\ cleared = PoolCleared(served)

\* what the pool does at a nil return, whatever the pushes returned
PoolOutcome ==
    (Returned /\ ret = "nil") =>
        /\ ret = PoolRet(served)
        /\ deq = PoolDocs(served)
        /\ cleared = PoolCleared(served)

\* the sequential pipeline agrees with it as long as no push fails
SeqAgreesWithoutFailures ==
    (Returned /\ failures = 0) =>
        /\ ret = PoolRet(served)
        /\ deq = PoolDocs(served)
        /\ cleared = PoolCleared(served)

(***************************************************************************)
(* pushLogToLoki on its own.  A JSON value is [t, s, n]: t its type, s the *)
(* characters of a string, n a number counted in halves (n = 7 is 3.5), so *)
(* that numbers that are not integers are among the inputs.                *)
(***************************************************************************)
JAbsent == [t |-> "absent", s |-> <<>>, n |-> 0]

\* a value that is neither a string nor a number (a bool, an object, null)
JOther == [t |-> "other", s |-> <<>>, n |-> 0]

JStr(cs) == [t |-> "string", s |-> cs, n |-> 0]

JNum(h) == [t |-> "number", s |-> <<>>, n |-> h]

\* v.(string) and v.(float64) with the comma-ok form
AsString(v) == [val |-> IF v.t = "string" THEN v.s ELSE <<>>, ok |-> v.t = "string"]

AsFloat64(v) == [val |-> IF v.t = "number" THEN v.n ELSE 0, ok |-> v.t = "number"]

\* the largest level the inputs probe (in units; the halves go up to it)
MaxLevelProbe == 9

\* the timestamps among the inputs
TsCustom == <<"2", "0", "2", "4", "-", "0", "2", "-", "1", "4", " ", "2", "0", ":", "3", "0", ":", "5", "5", ".", "4", "1", "0">>

TsRFCFraction == <<"2", "0", "2", "4", "-", "0", "2", "-", "1", "4", "T", "2", "0", ":", "3", "0", ":", "5", "5", ".", "4", "1", "Z">>

TsRFCOffset == <<"2", "0", "2", "4", "-", "0", "2", "-", "1", "4", "T", "2", "0", ":", "3", "0", ":", "5", "5", "+", "0", "2", ":", "0", "0">>

TsNoMillis == <<"2", "0", "2", "4", "-", "0", "2", "-", "1", "4", " ", "2", "0", ":", "3", "0", ":", "5", "5">>

TsBadMonth == <<"2", "0", "2", "4", "-", "1", "3", "-", "1", "4", " ", "2", "0", ":", "3", "0", ":", "5", "5", ".", "4", "1", "0">>

TsBadDay == <<"2", "0", "2", "3", "-", "0", "2", "-", "2", "9", " ", "2", "0", ":", "3", "0", ":", "5", "5", ".", "4", "1", "0">>

TsEpoch == <<"1", "7", "0", "7", "9", "4", "2", "6", "5", "5">>

TimestampValues ==
    {JAbsent, JOther, JNum(2)}
    \cup { JStr(cs) : cs \in {TsCustom, TsRFCFraction, TsRFCOffset, TsNoMillis,
                               TsBadMonth, TsBadDay, TsEpoch, <<>>} }

TextValues == {JAbsent, JNum(2), JStr(<<"x">>)}

LevelValues ==
    {JAbsent, JOther}
    \cup { JNum(h) : h \in (-3..(2 * MaxLevelProbe)) \cup {198} }
    \cup { JStr(cs) : cs \in {<<"W", "A", "R", "N">>, <<"I", "n", "f", "o">>,
                               <<"e", "r", "r">>, <<>>} }

LogDocs ==
    [timestamp : TimestampValues, message : TextValues, level : LevelValues,
     host : TextValues, app : TextValues]

StatusOK == 200

StatusNoContent == 204

\* client.Do fails, or the endpoint answers with a status
LokiResponses ==
    {[kind |-> "neterr", status |-> 0]}
    \cup { [kind |-> "status", status |-> c] : c \in {200, 201, 204, 400, 500} }

(***************************************************************************)
(* time.Parse for the two layouts                                          *)
(***************************************************************************)
DigitChars == <<"0", "1", "2", "3", "4", "5", "6", "7", "8", "9">>

IsDigit(c) == \E k \in 1..10 : DigitChars[k] = c

DigitVal(c) == (CHOOSE k \in 1..10 : DigitChars[k] = c) - 1

AllDigits(cs, a, b) == \A k \in a..b : IsDigit(cs[k])

RECURSIVE NumOf(_)
NumOf(cs) ==
    IF cs = <<>> THEN 0
    ELSE NumOf(SubSeq(cs, 1, Len(cs) - 1)) * 10 + DigitVal(cs[Len(cs)])

RECURSIVE Pow10(_)
Pow10(k) == IF k = 0 THEN 1 ELSE 10 * Pow10(k - 1)

IsLeap(y) == (y % 4 = 0 /\ y % 100 # 0) \/ y % 400 = 0

DaysIn(y, m) ==
    IF m = 2 THEN (IF IsLeap(y) THEN 29 ELSE 28)
    ELSE IF m \in {4, 6, 9, 11} THEN 30 ELSE 31

NoTime == [ok |-> FALSE, sec |-> 0, nanos |-> 0]

\* seconds since the epoch of a civil date and time at the offset off (minutes)
UnixSeconds(y, m, d, hh, mi, ss, off) ==
    LET yy  == IF m <= 2 THEN y - 1 ELSE y
        era == yy \div 400
        yoe == yy - era * 400
        mp  == IF m > 2 THEN m - 3 ELSE m + 9
        doy == (153 * mp + 2) \div 5 + d - 1
        doe == yoe * 365 + yoe \div 4 - yoe \div 100 + doy
        days == era * 146097 + doe - 719468
    IN  days * 86400 + hh * 3600 + mi * 60 + ss - off * 60

\* "2006-01-02" sep "15:04:05" at the head of cs, with the range checks
DateTimeOk(cs, sep) ==
    /\ Len(cs) >= 19
    /\ AllDigits(cs, 1, 4) /\ cs[5] = "-" /\ AllDigits(cs, 6, 7) /\ cs[8] = "-"
    /\ AllDigits(cs, 9, 10) /\ cs[11] = sep
    /\ AllDigits(cs, 12, 13) /\ cs[14] = ":" /\ AllDigits(cs, 15, 16) /\ cs[17] = ":"
    /\ AllDigits(cs, 18, 19)
    /\ NumOf(SubSeq(cs, 6, 7)) \in 1..12
    /\ NumOf(SubSeq(cs, 9, 10)) \in 1..DaysIn(NumOf(SubSeq(cs, 1, 4)), NumOf(SubSeq(cs, 6, 7)))
    /\ NumOf(SubSeq(cs, 12, 13)) < 24
    /\ NumOf(SubSeq(cs, 15, 16)) < 60
    /\ NumOf(SubSeq(cs, 18, 19)) < 60

TimeAt(cs, nanos, off) ==
    [ok |-> TRUE,
     sec |-> UnixSeconds(NumOf(SubSeq(cs, 1, 4)), NumOf(SubSeq(cs, 6, 7)),
                         NumOf(SubSeq(cs, 9, 10)), NumOf(SubSeq(cs, 12, 13)),
                         NumOf(SubSeq(cs, 15, 16)), NumOf(SubSeq(cs, 18, 19)), off),
     nanos |-> nanos]

\* time.Parse("2006-01-02 15:04:05.000", s): three fraction digits, UTC
ParseCustom(cs) ==
    IF DateTimeOk(cs, " ") /\ Len(cs) = 23 /\ cs[20] = "." /\ AllDigits(cs, 21, 23)
      THEN TimeAt(cs, NumOf(SubSeq(cs, 21, 23)) * 1000000, 0)
      ELSE NoTime

\* the zone of RFC3339: "Z" or a signed hh:mm; off in minutes
ParseZone(z) ==
    IF z = <<"Z">> THEN [ok |-> TRUE, off |-> 0]
    ELSE IF /\ Len(z) = 6 /\ z[1] \in {"+", "-"} /\ AllDigits(z, 2, 3)
            /\ z[4] = ":" /\ AllDigits(z, 5, 6)
            /\ NumOf(SubSeq(z, 2, 3)) < 24 /\ NumOf(SubSeq(z, 5, 6)) < 60
      THEN [ok |-> TRUE,
            off |-> (IF z[1] = "-" THEN -1 ELSE 1)
                      * (NumOf(SubSeq(z, 2, 3)) * 60 + NumOf(SubSeq(z, 5, 6)))]
      ELSE [ok |-> FALSE, off |-> 0]

\* time.Parse(time.RFC3339Nano, s): date "T" time, an optional fraction of
\* one to nine digits, the zone
ParseRFC3339Nano(cs) ==
    IF ~DateTimeOk(cs, "T") THEN NoTime
    ELSE
      LET rest == SubSeq(cs, 20, Len(cs))
          hasFrac == Len(rest) >= 1 /\ rest[1] = "."
          fracLen == IF hasFrac
                       THEN Cardinality({k \in 2..Len(rest) : AllDigits(rest, 2, k)})
                       ELSE 0
          frac == SubSeq(rest, 2, 1 + fracLen)
          zone == ParseZone(SubSeq(rest, (IF hasFrac THEN 2 + fracLen ELSE 1), Len(rest)))
      IN  IF (hasFrac => fracLen \in 1..9) /\ zone.ok
            THEN TimeAt(cs, NumOf(frac) * Pow10(9 - fracLen), zone.off)
            ELSE NoTime

ParseTimestamp_customOnly(cs) == [t |-> ParseCustom(cs), fallback |-> FALSE]

\* the custom layout first, RFC3339Nano when it fails (with a warning)
ParseTimestamp(cs) ==
    IF ParseCustom(cs).ok
      THEN [t |-> ParseCustom(cs), fallback |-> FALSE]
      ELSE [t |-> ParseRFC3339Nano(cs), fallback |-> ParseRFC3339Nano(cs).ok]

(***************************************************************************)
(* Labels                                                                  *)
(***************************************************************************)
UpperChars == <<"A", "B", "C", "D", "E", "F", "G", "H", "I", "J", "K", "L", "M", "N", "O", "P", "Q", "R", "S", "T", "U", "V", "W", "X", "Y", "Z">>

LowerChars == <<"a", "b", "c", "d", "e", "f", "g", "h", "i", "j", "k", "l", "m", "n", "o", "p", "q", "r", "s", "t", "u", "v", "w", "x", "y", "z">>

LowerChar(c) ==
    IF \E k \in 1..26 : UpperChars[k] = c
      THEN LowerChars[CHOOSE k \in 1..26 : UpperChars[k] = c]
      ELSE c

\* strings.ToLower on the letters A-Z
ToLower(cs) == [k \in 1..Len(cs) |-> LowerChar(cs[k])]

\* int(level): the float64 truncated toward zero (h counts halves)
IntOf(h) == IF h >= 0 THEN h \div 2 ELSE -((-h) \div 2)

convertGraylogLevel(level) ==
    CASE level = 0 -> <<"e", "m", "e", "r", "g", "e", "n", "c", "y">>
      [] level = 1 -> <<"a", "l", "e", "r", "t">>
      [] level = 2 -> <<"c", "r", "i", "t", "i", "c", "a", "l">>
      [] level = 3 -> <<"e", "r", "r", "o", "r">>
      [] level = 4 -> <<"w", "a", "r", "n", "i", "n", "g">>
      [] level = 5 -> <<"n", "o", "t", "i", "c", "e">>
      [] level = 6 -> <<"i", "n", "f", "o">>
      [] level = 7 -> <<"d", "e", "b", "u", "g">>
      [] OTHER -> <<"u", "n", "k", "n", "o", "w", "n">>

Unset == [set |-> FALSE, v |-> <<>>]

Label(cs) == [set |-> TRUE, v |-> cs]

\* the optional labels: unset unless the field has the type asked for
OptionalLabel(v) == IF AsString(v).ok THEN Label(AsString(v).val) ELSE Unset

LevelLabel(v) ==
    IF AsFloat64(v).ok THEN Label(convertGraylogLevel(IntOf(AsFloat64(v).val)))
    ELSE IF AsString(v).ok THEN Label(ToLower(AsString(v).val))
    ELSE Unset

LabelsOf(doc, index) ==
    [app |-> "graylog-forwarder", source_index |-> index, data_origin |-> "historical",
     app_name |-> OptionalLabel(doc.app),
     log_level |-> LevelLabel(doc.level),
     host |-> OptionalLabel(doc.host)]

\* the message, or json.Marshal of the whole document when it is not a string
MessageOf(doc) ==
    IF AsString(doc.message).ok
      THEN [json |-> FALSE, text |-> AsString(doc.message).val, doc |-> NoLogDoc]
      ELSE [json |-> TRUE, text |-> <<>>, doc |-> doc]

(***************************************************************************)
(* The request and the classification of the endpoint's answer            *)
(***************************************************************************)
StatusAccepted_any2xx(c) == c \in 200..299

\* resp.StatusCode is http.StatusNoContent or http.StatusOK
StatusAccepted(c) == c = StatusNoContent \/ c = StatusOK

NoRequest == [sent |-> FALSE]

\* one stream with one entry; the timestamp is t.UnixNano(), kept as the
\* seconds and the nanoseconds of the instant
RequestOf(doc, index, t) ==
    [sent |-> TRUE, stream |-> LabelsOf(doc, index),
     entry |-> [ts |-> <<t.sec, t.nanos>>, message |-> MessageOf(doc)]]

\* pushLogToLoki(lokiURL, logDoc, openSearchIndex) against an endpoint that
\* does resp: the error it returns, the requests it has sent (client.Do
\* calls), the request, and the warnings it has logged
PushLogToLoki(doc, index, resp) ==
    IF ~AsString(doc.timestamp).ok
      THEN [err |-> "timestamp", sends |-> 0, req |-> NoRequest,
            warnTs |-> FALSE, warnMsg |-> FALSE]
    ELSE
      LET p == ParseTimestamp(AsString(doc.timestamp).val)
      IN  IF ~p.t.ok
            THEN [err |-> "parse", sends |-> 0, req |-> NoRequest,
                  warnTs |-> FALSE, warnMsg |-> FALSE]
            ELSE [err |-> IF resp.kind = "neterr" THEN "send"
                          ELSE IF ~StatusAccepted(resp.status) THEN "status"
                          ELSE "nil",
                  sends |-> 1,
                  req |-> RequestOf(doc, index, p.t),
                  warnTs |-> p.fallback,
                  warnMsg |-> ~AsString(doc.message).ok]

PushInit ==
    /\ PipelineInit
    /\ logDoc \in LogDocs
    /\ lokiResp \in LokiResponses
    /\ pushOut = NoOut

\* the call
PushCall ==
    /\ pushOut = NoOut
    /\ pushOut' = PushLogToLoki(logDoc, "idx", lokiResp)
    /\ UNCHANGED <<pc, res, scrollID, i, processedCount, queue, closed, wstate, wdoc,
                   ret, reported, served, enq, deq, attempts, failures,
                   closeCount, cleared, clearErr, logDoc, lokiResp>>

PushNext == PushCall

PushSpec == PushInit /\ [][PushNext]_vars

(***************************************************************************)
(* Claims about pushLogToLoki                                              *)
(***************************************************************************)
Called == pushOut # NoOut

\* the timestamp is a string in neither layout
Unparseable(cs) == ~ParseCustom(cs).ok /\ ~ParseRFC3339Nano(cs).ok

TimestampUsable(doc) == doc.timestamp.t = "string" /\ ~Unparseable(doc.timestamp.s)

\* the parsers agree with time.Parse on the sample instants
ParsedInstants ==
    /\ ParseCustom(TsCustom) = [ok |-> TRUE, sec |-> 1707942655, nanos |-> 410000000]
    /\ ParseRFC3339Nano(TsRFCFraction) = [ok |-> TRUE, sec |-> 1707942655, nanos |-> 410000000]
    /\ ParseRFC3339Nano(TsRFCOffset) = [ok |-> TRUE, sec |-> 1707942655 - 7200, nanos |-> 0]
    /\ \A cs \in {TsNoMillis, TsBadMonth, TsBadDay, TsEpoch, <<>>} : Unparseable(cs)

\* C17: pushLogToLoki returns an error without sending anything exactly when
\* the timestamp is missing, not a string, or a string in neither the custom
\* layout (tried first) nor RFC3339Nano; every other field degrades: a
\* message that is not a string becomes the JSON of the whole document, and
\* an optional label whose field is missing or of another type is left out.
C17_OnlyTimestampIsFatal ==
    Called =>
      /\ (pushOut.err # "nil" /\ pushOut.sends = 0) <=> ~TimestampUsable(logDoc)
      /\ ~TimestampUsable(logDoc) => pushOut.err \in {"timestamp", "parse"}
      /\ TimestampUsable(logDoc) =>
           /\ pushOut.sends = 1
           /\ pushOut.warnTs <=> ~ParseCustom(logDoc.timestamp.s).ok
           /\ pushOut.req.entry.ts =
                LET t == IF ParseCustom(logDoc.timestamp.s).ok
                           THEN ParseCustom(logDoc.timestamp.s)
                           ELSE ParseRFC3339Nano(logDoc.timestamp.s)
                IN  <<t.sec, t.nanos>>
           /\ pushOut.req.entry.message.json <=> logDoc.message.t # "string"
           /\ ~pushOut.req.entry.message.json =>
                pushOut.req.entry.message.text = logDoc.message.s
           /\ pushOut.req.entry.message.json =>
                pushOut.req.entry.message.doc = logDoc
           /\ pushOut.req.stream.app_name.set <=> logDoc.app.t = "string"
           /\ pushOut.req.stream.host.set <=> logDoc.host.t = "string"
           /\ pushOut.req.stream.log_level.set <=> logDoc.level.t \in {"string", "number"}

\* a document with an RFC3339 timestamp and nothing else usable is delivered
C17_Witness ==
    /\ Called
    /\ logDoc.timestamp = JStr(TsRFCFraction)
    /\ logDoc.message.t # "string" /\ logDoc.app.t # "string"
    /\ logDoc.host.t # "string" /\ logDoc.level.t = "absent"
    /\ pushOut.err = "nil" /\ pushOut.warnTs /\ pushOut.req.entry.message.json

\* the severity names of the levels 0 to 7
SeverityName(k) ==
    <<<<"e", "m", "e", "r", "g", "e", "n", "c", "y">>, <<"a", "l", "e", "r", "t">>,
      <<"c", "r", "i", "t", "i", "c", "a", "l">>, <<"e", "r", "r", "o", "r">>,
      <<"w", "a", "r", "n", "i", "n", "g">>, <<"n", "o", "t", "i", "c", "e">>,
      <<"i", "n", "f", "o">>, <<"d", "e", "b", "u", "g">>>>[k + 1]

\* the number h halves is one of the levels 0 to 7
IsSeverity(h) == h % 2 = 0 /\ h \div 2 \in 0..7

LevelLabelSent == Called /\ pushOut.sends = 1

\* C18: the level label of a numeric level is the severity name for the
\* values 0 to 7 and "unknown" for every other number; of a string level it
\* is the string in lower case; a level that is absent or of another type
\* adds no level label.
C18_LevelLabel ==
    LevelLabelSent =>
      LET l == pushOut.req.stream.log_level IN
      /\ logDoc.level.t = "number" =>
           l = Label(IF IsSeverity(logDoc.level.n)
                       THEN SeverityName(logDoc.level.n \div 2)
                       ELSE <<"u", "n", "k", "n", "o", "w", "n">>)
      /\ logDoc.level = JStr(<<"W", "A", "R", "N">>) => l = Label(<<"w", "a", "r", "n">>)
      /\ logDoc.level = JStr(<<"I", "n", "f", "o">>) => l = Label(<<"i", "n", "f", "o">>)
      /\ logDoc.level = JStr(<<"e", "r", "r">>) => l = Label(<<"e", "r", "r">>)
      /\ logDoc.level = JStr(<<>>) => l = Label(<<>>)
      /\ logDoc.level.t \in {"absent", "other"} => ~l.set

\* the same for the levels that are whole numbers
C18_WholeLevels ==
    (LevelLabelSent /\ logDoc.level.t = "number" /\ logDoc.level.n % 2 = 0) =>
      pushOut.req.stream.log_level =
        Label(IF IsSeverity(logDoc.level.n)
                THEN SeverityName(logDoc.level.n \div 2)
                ELSE <<"u", "n", "k", "n", "o", "w", "n">>)

\* C19: pushLogToLoki returns nil exactly when the request was sent and the
\* answer has status 200 or 204; every other status and every failure to
\* send is an error, and the request is never sent again.
C19_DeliveryOutcome ==
    Called =>
      /\ pushOut.err = "nil" <=>
           /\ pushOut.sends = 1
           /\ lokiResp.kind = "status"
           /\ lokiResp.status \in {200, 204}
      /\ pushOut.sends <= 1
      /\ (pushOut.sends = 1 /\ lokiResp.kind = "neterr") => pushOut.err = "send"
      /\ (pushOut.sends = 1 /\ lokiResp.kind = "status"
            /\ lokiResp.status \notin {200, 204}) => pushOut.err = "status"

\* a request answered 201 has been sent once and is an error
C19_Witness ==
    /\ Called
    /\ pushOut.sends = 1
    /\ lokiResp = [kind |-> "status", status |-> 201]
    /\ pushOut.err = "status"

====
